---- MODULE Spec2Model ----
(***************************************************************************)
(* Model of the volume-progression optimizer of volume-jinn                *)
(* (src/hevy.py: Hevy.get_optimized_options, Hevy.optimize_weight_and_reps,*)
(* Hevy.calculate_exercise_volume; src/app.py: calc_volume).               *)
(*                                                                         *)
(* Numbers.  The code computes in Python floats; the model computes in     *)
(* exact arithmetic on integers:                                           *)
(*   - a weight is a whole number of hundredths of a kilogram (40 kg is    *)
(*     4000), so the 1.25 kg step is 125 and round(avg_w, 2) is a whole    *)
(*     number again;                                                       *)
(*   - volume_perc and max_pct_weight_bump are hundredths (0.05 is 5);     *)
(*   - avg_w = sum(w)/n is the fraction [num, den];                        *)
(*   - every volume of one call (target_vol, delta, rem0, rem1, overshoot, *)
(*     added volumes, 'remaining') is held multiplied by PercDen * n, n    *)
(*     the number of usable sets of the call, which makes all of them      *)
(*     whole numbers.  One such unit is 1e-4/n kg x reps, far above the    *)
(*     code's 1e-6, so "x <= 1e-6" is "x <= 0" and "x >= -1e-6" is         *)
(*     "x >= 0" on these numbers.                                          *)
(* Python's None is Null, a key absent from a dict is Missing.             *)
(***************************************************************************)
EXTENDS Integers, Sequences, FiniteSets, TLC

VARIABLES
    data,                 \* the argument dict: [exercise, sets]
    volume_perc,          \* hundredths
    max_pct_weight_bump,  \* hundredths
    rep_floor,
    rep_cap,
    pc,                   \* position in get_optimized_options
    orig,                 \* the sets left by the null filter
    base_sets,            \* the flattened sets of Phase 0
    rem1,                 \* the deficit handed to the next phase (scaled)
    sets_so_far,
    result,               \* the result dict under construction / returned
    raw_sets,             \* volume calculator: the list of set dicts
    vol_pc,               \* volume calculator: position
    hevy_volume,          \* Hevy.calculate_exercise_volume's return value
    app_volume            \* app.calc_volume's return value

vars == <<data, volume_perc, max_pct_weight_bump, rep_floor, rep_cap, pc, orig,
          base_sets, rem1, sets_so_far, result, raw_sets, vol_pc, hevy_volume,
          app_volume>>

optVars == <<data, volume_perc, max_pct_weight_bump, rep_floor, rep_cap, pc, orig,
             base_sets, rem1, sets_so_far, result>>

volVars == <<raw_sets, vol_pc, hevy_volume, app_volume>>

-----------------------------------------------------------------------------
(* Bounds of the explored inputs *)

MaxSets == 2
MaxReps == 2
MaxRepFloor == 2
MaxRepCap == 2

-----------------------------------------------------------------------------
(* Values and program constants *)

Null == -1
Missing == -2
PercDen == 100
W_STEP == 125
LEG_PRESS_INC == 900
LEG_PRESS == "Leg Press Horizontal (Machine)"
DEFAULT_MAX_PCT == 10
DEFAULT_REP_FLOOR == 6
DEFAULT_REP_CAP == 12

Min(a, b) == IF a <= b THEN a ELSE b

RECURSIVE SumTo(_, _)
SumTo(f, k) == IF k = 0 THEN 0 ELSE f[k] + SumTo(f, k - 1)

\* sum(r*w for r,w in sets), in hundredths of kg x reps
SetsVolume(sets) ==
    SumTo([i \in 1..Len(sets) |-> sets[i].reps * sets[i].weight], Len(sets))

\* sum(w for _,w in sets)
SumWeights(sets) == SumTo([i \in 1..Len(sets) |-> sets[i].weight], Len(sets))

\* sum(r for r,_ in sets)
SumReps(sets) == SumTo([i \in 1..Len(sets) |-> sets[i].reps], Len(sets))

\* the factor every volume of a call with n usable sets is multiplied by
VolScale(n) == PercDen * n

\* LeqEps with a strict comparison
LeqEpsStrict(x) == x < 0

\* x <= 1e-6 on scaled volumes
LeqEps(x) == x <= 0

\* x >= -1e-6 on scaled volumes
GeqMinusEps(x) == x >= 0

\* Remaining with its operands exchanged
RemainingSignSlip(deficit, added) == added - deficit

\* the deficit left once a stage has added its volume: rem0 - best['total_added'],
\* rem1 - added3
Remaining(deficit, added) == deficit - added

\* Python's None returned by optimize_weight_and_reps
None == [w_inc |-> 0, bump_reps |-> <<>>, total_added |-> 0, overshoot |-> 0,
         final_sets |-> <<>>]

-----------------------------------------------------------------------------
(* get_optimized_options: the null filter and Phase 0 *)

\* IsUsable testing the reps alone
IsUsableRepsOnly(s) == s.reps # Null

\* r is not None and w is not None
IsUsable(s) == s.reps # Null /\ s.weight # Null

FilterNulls(sets) == SelectSeq(sets, IsUsable)

\* target_vol = total_vol * (1 + volume_perc), scaled
TargetVol(sets, perc) == SetsVolume(sets) * (PercDen + perc) * Len(sets)

\* delta = target_vol - total_vol, scaled
Delta(sets, perc) == TargetVol(sets, perc) - SetsVolume(sets) * VolScale(Len(sets))

AvgW(sets) == [num |-> SumWeights(sets), den |-> Len(sets)]

FlattenSet(s, cap) == IF s.reps > cap THEN [reps |-> cap, weight |-> s.weight] ELSE s

Flatten(sets, cap) == [i \in 1..Len(sets) |-> FlattenSet(sets[i], cap)]

LostVolume(sets, cap) ==
    (SetsVolume(sets) - SetsVolume(Flatten(sets, cap))) * VolScale(Len(sets))

-----------------------------------------------------------------------------
(* optimize_weight_and_reps *)

\* MaxSteps rounding up instead of down
MaxStepsCeil(avg_w, max_pct_wb) ==
    (avg_w.num * max_pct_wb + avg_w.den * PercDen * W_STEP - 1)
        \div (avg_w.den * PercDen * W_STEP)

\* math.floor((avg_w*max_pct_wb)/1.25): the number of 1.25 kg steps allowed
MaxSteps(avg_w, max_pct_wb) == (avg_w.num * max_pct_wb) \div (avg_w.den * PercDen * W_STEP)

\* the weight bump candidates, ascending
Candidates(exercise_name, avg_w, max_pct_wb) ==
    IF exercise_name = LEG_PRESS
    THEN <<LEG_PRESS_INC>>
    ELSE [i \in 1..MaxSteps(avg_w, max_pct_wb) |-> W_STEP * i]

\* bumped = [(r, w + w_inc) for r,w in base_sets]
Bumped(sets, w_inc) ==
    [i \in 1..Len(sets) |-> [reps |-> sets[i].reps, weight |-> sets[i].weight + w_inc]]

\* AddedWVol counting each set once instead of each rep
AddedWVolPerSet(sets, w_inc) == Len(sets) * w_inc * VolScale(Len(sets))

\* added_wvol = sum(r * w_inc for r,_ in base_sets), scaled
AddedWVol(sets, w_inc) == SumReps(sets) * w_inc * VolScale(Len(sets))

\* FloorNeed without the min() against cap_extra
FloorNeedUncapped(s, floor, cap) == IF s.reps < floor THEN floor - s.reps ELSE 0

\* FloorNeed stopping one rep short of rep_floor
FloorNeedOffByOne(s, floor, cap) ==
    IF s.reps < floor THEN Min(floor - s.reps - 1, cap - s.reps) ELSE 0

\* need = min(rep_floor - r, cap_extra[i]) for a set below rep_floor, else no bump
FloorNeed(s, floor, cap) ==
    IF s.reps < floor THEN Min(floor - s.reps, cap - s.reps) ELSE 0

\* bump_r after the rep_floor pass
FloorBumps(sets, floor, cap) == [i \in 1..Len(sets) |-> FloorNeed(sets[i], floor, cap)]

\* repfloor_added = sum(need * w) over the bumped sets, scaled
RepFloorAdded(bumped, bumps) ==
    SumTo([i \in 1..Len(bumped) |-> bumps[i] * bumped[i].weight], Len(bumped))
        * VolScale(Len(bumped))

\* Order without reverse=True: the lightest set first
OrderAscending(bumped) ==
    LET n == Len(bumped)
        Before(j, i) == \/ bumped[j].weight < bumped[i].weight
                        \/ (bumped[j].weight = bumped[i].weight /\ j < i)
        Rank(i) == 1 + Cardinality({j \in 1..n : Before(j, i)})
    IN  [k \in 1..n |-> CHOOSE i \in 1..n : Rank(i) = k]

\* sorted(range(n), key=lambda i: bumped[i][1], reverse=True): a stable sort, so
\* sets of equal weight keep their order
Order(bumped) ==
    LET n == Len(bumped)
        Before(j, i) == \/ bumped[j].weight > bumped[i].weight
                        \/ (bumped[j].weight = bumped[i].weight /\ j < i)
        Rank(i) == 1 + Cardinality({j \in 1..n : Before(j, i)})
    IN  [k \in 1..n |-> CHOOSE i \in 1..n : Rank(i) = k]

\* the "one-rep at a time on heaviest" loop; st = [bump_r, cap_extra, added_rvol, rem2]
RECURSIVE GreedyFill(_, _, _)
GreedyFill(bumped, order, st) ==
    IF st.rem2 > 0
    THEN LET open == {k \in 1..Len(order) : st.cap_extra[order[k]] > 0}
         IN  IF open = {}
             THEN st
             ELSE LET k == CHOOSE x \in open : \A y \in open : x <= y
                      i == order[k]
                      w == bumped[i].weight * VolScale(Len(bumped))
                  IN  GreedyFill(bumped, order,
                         [bump_r     |-> [st.bump_r EXCEPT ![i] = @ + 1],
                          cap_extra  |-> [st.cap_extra EXCEPT ![i] = @ - 1],
                          added_rvol |-> st.added_rvol + w,
                          rem2       |-> st.rem2 - w])
    ELSE st

\* the state of the rep fill of one candidate after both of its steps
RepFill(base, delta, w_inc, floor, cap) ==
    LET bumped == Bumped(base, w_inc)
        bumps  == FloorBumps(base, floor, cap)
        added  == RepFloorAdded(bumped, bumps)
    IN  GreedyFill(bumped, Order(bumped),
           [bump_r     |-> bumps,
            cap_extra  |-> [i \in 1..Len(base) |-> cap - base[i].reps - bumps[i]],
            added_rvol |-> added,
            rem2       |-> delta - AddedWVol(base, w_inc) - added])

\* rem1 <= 0: the uniform bump alone meets the deficit
BumpSuffices(base, delta, w_inc) == delta - AddedWVol(base, w_inc) <= 0

\* the dict returned at once when the bump alone suffices
EarlyReturn(base, delta, w_inc) ==
    [w_inc       |-> w_inc,
     bump_reps   |-> [i \in 1..Len(base) |-> 0],
     total_added |-> AddedWVol(base, w_inc),
     overshoot   |-> AddedWVol(base, w_inc) - delta,
     final_sets  |-> Bumped(base, w_inc)]

\* cand of one weight increment after its rep fill
FillCandidate(base, delta, w_inc, floor, cap) ==
    LET st    == RepFill(base, delta, w_inc, floor, cap)
        total == AddedWVol(base, w_inc) + st.added_rvol
    IN  [w_inc       |-> w_inc,
         bump_reps   |-> st.bump_r,
         total_added |-> total,
         overshoot   |-> total - delta,
         final_sets  |-> [i \in 1..Len(base) |->
                            [reps   |-> base[i].reps + st.bump_r[i],
                             weight |-> base[i].weight + w_inc]]]

\* any(bump_r) and overshoot >= -1e-6
Accepted(cand) ==
    /\ \E i \in 1..Len(cand.bump_reps) : cand.bump_reps[i] # 0
    /\ GeqMinusEps(cand.overshoot)

\* Replaces with the overshoot comparison reversed
ReplacesLarger(cand, best) ==
    \/ best = None
    \/ cand.overshoot > best.overshoot
    \/ (cand.overshoot = best.overshoot /\ cand.w_inc < best.w_inc)

\* the test that lets cand replace best
Replaces(cand, best) ==
    \/ best = None
    \/ cand.overshoot < best.overshoot
    \/ (cand.overshoot = best.overshoot /\ cand.w_inc < best.w_inc)

\* the loop over the candidates from the k-th on, best being the best so far
RECURSIVE Scan(_, _, _, _, _, _, _)
Scan(cands, k, best, base, delta, floor, cap) ==
    IF k > Len(cands)
    THEN best
    ELSE IF BumpSuffices(base, delta, cands[k])
         THEN EarlyReturn(base, delta, cands[k])
         ELSE LET cand == FillCandidate(base, delta, cands[k], floor, cap)
              IN  Scan(cands, k + 1,
                       IF Accepted(cand) /\ Replaces(cand, best) THEN cand ELSE best,
                       base, delta, floor, cap)

optimize_weight_and_reps(base, delta, avg_w, max_pct_wb, floor, cap, exercise_name) ==
    Scan(Candidates(exercise_name, avg_w, max_pct_wb), 1, None, base, delta, floor, cap)

-----------------------------------------------------------------------------
(* get_optimized_options: Phase 2 ("Phase 3" in the code's comment), new sets *)

\* unit = rep_cap * avg_w, scaled
Unit(avg_w, cap) == cap * avg_w.num * PercDen

\* round(avg_w, 2): to the nearest hundredth, a tie to the even one (the weights
\* modelled are multiples of 0.25 kg, for which a tie is exact in binary too)
RoundedAvg(avg_w) ==
    LET q == avg_w.num \div avg_w.den
        r == avg_w.num % avg_w.den
    IN  IF 2 * r < avg_w.den THEN q
        ELSE IF 2 * r > avg_w.den THEN q + 1
        ELSE IF q % 2 = 0 THEN q ELSE q + 1

\* math.ceil(a / b) for a >= 0, b > 0
CeilDiv(a, b) == (a + b - 1) \div b

\* full = int(rem1 // unit)
FullSets(rem, avg_w, cap) == rem \div Unit(avg_w, cap)

\* rem3 = rem1 - full*unit
Rem3(rem, avg_w, cap) == rem - FullSets(rem, avg_w, cap) * Unit(avg_w, cap)

\* rp = min(rep_cap, math.ceil(rem3/avg_w))
PartialReps(rem3, avg_w, cap) == Min(cap, CeilDiv(rem3, avg_w.num * PercDen))

\* plan: the full new sets and, if rem3 > 1e-6, the partial one
Plan(rem, avg_w, cap) ==
    LET full    == FullSets(rem, avg_w, cap)
        rem3    == Rem3(rem, avg_w, cap)
        newset  == [reps |-> cap, weight |-> RoundedAvg(avg_w)]
        fulls   == [i \in 1..full |-> newset]
    IN  IF ~LeqEps(rem3)
        THEN Append(fulls, [reps   |-> PartialReps(rem3, avg_w, cap),
                            weight |-> RoundedAvg(avg_w)])
        ELSE fulls

-----------------------------------------------------------------------------
(* get_optimized_options as steps on a frame f of its locals, for a call c *)

StartFrame ==
    [pc |-> "enter", orig |-> <<>>, base_sets |-> <<>>, rem1 |-> 0,
     sets_so_far |-> <<>>,
     result |-> [delta |-> 0, target_volume |-> 0, phases |-> <<>>, final_sets |-> <<>>]]

\* lines 227-243: drop the null sets; nothing left returns the zero result
EnterStep(c, f) ==
    LET usable == FilterNulls(c.data.sets)
    IN  IF usable = <<>>
        THEN [f EXCEPT !.pc = "done",
                       !.result = [delta |-> 0, target_volume |-> 0,
                                   phases |-> <<>>, final_sets |-> <<>>]]
        ELSE [f EXCEPT !.pc = "phase0",
                       !.orig = usable,
                       !.result = [delta         |-> Delta(usable, c.volume_perc),
                                   target_volume |-> TargetVol(usable, c.volume_perc),
                                   phases        |-> <<>>,
                                   final_sets    |-> <<>>]]

\* lines 245-264: flatten the sets above rep_cap
Phase0Step(c, f) ==
    LET base == Flatten(f.orig, c.rep_cap)
        rem0 == f.result.target_volume - SetsVolume(base) * VolScale(Len(f.orig))
        rec  == [phase       |-> 0,
                 lost_volume |-> LostVolume(f.orig, c.rep_cap),
                 base_sets   |-> base,
                 remaining   |-> rem0]
        res  == [f.result EXCEPT !.phases = Append(@, rec)]
    IN  IF LeqEps(rem0)
        THEN [f EXCEPT !.pc = "done", !.base_sets = base, !.rem1 = rem0,
                       !.result = [res EXCEPT !.final_sets = base]]
        ELSE [f EXCEPT !.pc = "phase1", !.base_sets = base, !.rem1 = rem0,
                       !.result = res]

\* lines 266-288: the uniform weight bump and the rep fill
Phase1Step(c, f) ==
    LET best == optimize_weight_and_reps(f.base_sets, f.rem1, AvgW(f.orig),
                    c.max_pct_weight_bump, c.rep_floor, c.rep_cap, c.data.exercise)
        left == Remaining(f.rem1, best.total_added)
        rec  == [phase        |-> 1,
                 w_inc        |-> best.w_inc,
                 bump_reps    |-> best.bump_reps,
                 added_volume |-> best.total_added,
                 overshoot    |-> best.overshoot,
                 final_sets   |-> best.final_sets,
                 remaining    |-> left]
        res  == [f.result EXCEPT !.phases = Append(@, rec)]
    IN  IF best # None
        THEN IF LeqEps(left)
             THEN [f EXCEPT !.pc = "done", !.rem1 = left,
                            !.result = [res EXCEPT !.final_sets = best.final_sets]]
             ELSE [f EXCEPT !.pc = "phase2", !.rem1 = left,
                            !.sets_so_far = best.final_sets, !.result = res]
        ELSE [f EXCEPT !.pc = "phase2", !.sets_so_far = f.base_sets]

\* unit == 0 makes "rem1 // unit" raise ZeroDivisionError
DividesByZero(c, f) == Unit(AvgW(f.orig), c.rep_cap) = 0

\* lines 290-310: new sets at rep_cap
Phase2Step(c, f) ==
    IF DividesByZero(c, f)
    THEN [f EXCEPT !.pc = "raised"]
    ELSE LET avg_w  == AvgW(f.orig)
             full   == FullSets(f.rem1, avg_w, c.rep_cap)
             plan   == Plan(f.rem1, avg_w, c.rep_cap)
             added3 == SetsVolume(plan) * VolScale(Len(f.orig))
             final  == f.sets_so_far \o plan
             rec    == [phase           |-> 2,
                        full_new_sets   |-> full,
                        partial_new_set |-> SubSeq(plan, full + 1, Len(plan)),
                        added_volume    |-> added3,
                        new_sets        |-> final,
                        remaining       |-> Remaining(f.rem1, added3)]
         IN  [f EXCEPT !.pc = "done",
                       !.result = [f.result EXCEPT !.phases = Append(@, rec),
                                                   !.final_sets = final]]

Step(c, f) ==
    CASE f.pc = "enter"  -> EnterStep(c, f)
      [] f.pc = "phase0" -> Phase0Step(c, f)
      [] f.pc = "phase1" -> Phase1Step(c, f)
      [] f.pc = "phase2" -> Phase2Step(c, f)
      [] OTHER           -> f

RECURSIVE RunFrom(_, _)
RunFrom(c, f) == IF f.pc \in {"done", "raised"} THEN f ELSE RunFrom(c, Step(c, f))

\* the whole call: the frame at its return (pc "done") or at its exception ("raised")
get_optimized_options(c) == RunFrom(c, StartFrame)

-----------------------------------------------------------------------------
(* The calls explored *)

Weights == {0, 1025, 5000}

VolumePercs == {0, 5, 50, 100}

ExerciseNames == {"Bench Press (Barbell)", LEG_PRESS}

NullSets == {[reps |-> Null, weight |-> 1025], [reps |-> 1, weight |-> Null]}

SetValues == [reps : 0..MaxReps, weight : Weights] \cup NullSets

SetLists == UNION {[1..k -> SetValues] : k \in 0..MaxSets}

GridCalls ==
    [data                : [exercise : ExerciseNames, sets : SetLists],
     volume_perc         : VolumePercs,
     max_pct_weight_bump : {DEFAULT_MAX_PCT},
     rep_floor           : 0..MaxRepFloor,
     rep_cap             : 0..MaxRepCap]

Set(r, w) == [reps |-> r, weight |-> w]

DefaultCall(name, sets, perc) ==
    [data                |-> [exercise |-> name, sets |-> sets],
     volume_perc         |-> perc,
     max_pct_weight_bump |-> DEFAULT_MAX_PCT,
     rep_floor           |-> DEFAULT_REP_FLOOR,
     rep_cap             |-> DEFAULT_REP_CAP]

\* the two worked scenarios of the specification, called as the bot calls (+5 %)
ScenarioCalls ==
    {DefaultCall("Bench Press (Barbell)", <<Set(10, 4000), Set(10, 4000), Set(8, 4000)>>, 5),
     DefaultCall("Bench Press (Barbell)", <<Set(12, 10000)>>, 5)}

NeighbourPercs == {390, 395}

\* one exercise asked for two neighbouring increases
NeighbourCalls ==
    {[data                |-> [exercise |-> LEG_PRESS, sets |-> <<Set(4, 600), Set(2, 25)>>],
      volume_perc         |-> p,
      max_pct_weight_bump |-> DEFAULT_MAX_PCT,
      rep_floor           |-> 4,
      rep_cap             |-> 5] : p \in NeighbourPercs}

Calls == GridCalls \cup ScenarioCalls \cup NeighbourCalls

-----------------------------------------------------------------------------
(* The state machine of one call *)

Call == [data |-> data, volume_perc |-> volume_perc,
         max_pct_weight_bump |-> max_pct_weight_bump,
         rep_floor |-> rep_floor, rep_cap |-> rep_cap]

Frame == [pc |-> pc, orig |-> orig, base_sets |-> base_sets, rem1 |-> rem1,
          sets_so_far |-> sets_so_far, result |-> result]

Commit(f) ==
    /\ pc' = f.pc
    /\ orig' = f.orig
    /\ base_sets' = f.base_sets
    /\ rem1' = f.rem1
    /\ sets_so_far' = f.sets_so_far
    /\ result' = f.result
    /\ UNCHANGED <<data, volume_perc, max_pct_weight_bump, rep_floor, rep_cap>>
    /\ UNCHANGED volVars

VolIdle ==
    /\ raw_sets = <<>>
    /\ vol_pc = "idle"
    /\ hevy_volume = 0
    /\ app_volume = 0

Init ==
    /\ \E c \in Calls :
          /\ data = c.data
          /\ volume_perc = c.volume_perc
          /\ max_pct_weight_bump = c.max_pct_weight_bump
          /\ rep_floor = c.rep_floor
          /\ rep_cap = c.rep_cap
    /\ pc = StartFrame.pc
    /\ orig = StartFrame.orig
    /\ base_sets = StartFrame.base_sets
    /\ rem1 = StartFrame.rem1
    /\ sets_so_far = StartFrame.sets_so_far
    /\ result = StartFrame.result
    /\ VolIdle

Enter == pc = "enter" /\ Commit(EnterStep(Call, Frame))

Phase0 == pc = "phase0" /\ Commit(Phase0Step(Call, Frame))

Phase1 == pc = "phase1" /\ Commit(Phase1Step(Call, Frame))

Phase2 == pc = "phase2" /\ ~DividesByZero(Call, Frame) /\ Commit(Phase2Step(Call, Frame))

ZeroDivisionError ==
    pc = "phase2" /\ DividesByZero(Call, Frame) /\ Commit(Phase2Step(Call, Frame))

Next == Enter \/ Phase0 \/ Phase1 \/ Phase2 \/ ZeroDivisionError

Spec == Init /\ [][Next]_vars

-----------------------------------------------------------------------------
(* The volume calculators, on the set dicts of the API *)

\* Python truth of a number or None
Truthy(x) == x # Null /\ x # 0

\* s['weight_kg'] and s['reps'], with the subscripts evaluated left to right:
\* a falsy weight_kg ends the "and" before s['reps'] is looked up
HevyKeyError(s) ==
    \/ s.weight_kg = Missing
    \/ (Truthy(s.weight_kg) /\ s.reps = Missing)

\* s['weight_kg'] * s['reps'] if s['weight_kg'] and s['reps'] else 0
HevyTerm(s) == IF Truthy(s.weight_kg) /\ Truthy(s.reps) THEN s.weight_kg * s.reps ELSE 0

\* Hevy.calculate_exercise_volume raises KeyError on these lists
HevyRaises(sets) == \E i \in 1..Len(sets) : HevyKeyError(sets[i])

\* Hevy.calculate_exercise_volume, when no subscript raises
calculate_exercise_volume(sets) ==
    SumTo([i \in 1..Len(sets) |-> HevyTerm(sets[i])], Len(sets))

\* s.get(key, 0) or 0
GetOrZero(x) == IF x = Missing \/ x = Null THEN 0 ELSE x

\* app.calc_volume
calc_volume(sets) ==
    SumTo([i \in 1..Len(sets) |-> GetOrZero(sets[i].weight_kg) * GetOrZero(sets[i].reps)],
          Len(sets))

RawReps == {Missing, Null} \cup 0..MaxReps

RawWeights == {Missing, Null} \cup Weights

RawSetLists == UNION {[1..k -> [reps : RawReps, weight_kg : RawWeights]] : k \in 0..MaxSets}

OptIdle ==
    /\ data = [exercise |-> "", sets |-> <<>>]
    /\ volume_perc = 0
    /\ max_pct_weight_bump = DEFAULT_MAX_PCT
    /\ rep_floor = DEFAULT_REP_FLOOR
    /\ rep_cap = DEFAULT_REP_CAP
    /\ pc = "idle"
    /\ orig = <<>>
    /\ base_sets = <<>>
    /\ rem1 = 0
    /\ sets_so_far = <<>>
    /\ result = StartFrame.result

InitVolume ==
    /\ raw_sets \in RawSetLists
    /\ vol_pc = "call"
    /\ hevy_volume = 0
    /\ app_volume = 0
    /\ OptIdle

\* app.py calls calc_volume on the sets
CalcVolume ==
    /\ vol_pc = "call"
    /\ app_volume' = calc_volume(raw_sets)
    /\ vol_pc' = "hevy"
    /\ UNCHANGED <<raw_sets, hevy_volume>>
    /\ UNCHANGED optVars

\* Hevy.calculate_exercise_volume returns
CalculateExerciseVolume ==
    /\ vol_pc = "hevy"
    /\ ~HevyRaises(raw_sets)
    /\ hevy_volume' = calculate_exercise_volume(raw_sets)
    /\ vol_pc' = "done"
    /\ UNCHANGED <<raw_sets, app_volume>>
    /\ UNCHANGED optVars

\* Hevy.calculate_exercise_volume raises on a missing key
KeyError ==
    /\ vol_pc = "hevy"
    /\ HevyRaises(raw_sets)
    /\ vol_pc' = "raised"
    /\ UNCHANGED <<raw_sets, app_volume, hevy_volume>>
    /\ UNCHANGED optVars

NextVolume == CalcVolume \/ CalculateExerciseVolume \/ KeyError

SpecVolume == InitVolume /\ [][NextVolume]_vars

-----------------------------------------------------------------------------
(* What the claims speak of *)

Returned == pc = "done"

NoNulls == \A i \in 1..Len(data.sets) :
              data.sets[i].reps # Null /\ data.sets[i].weight # Null

HasPhase(k) == \E i \in 1..Len(result.phases) : result.phases[i].phase = k

PhaseRec(k) ==
    result.phases[CHOOSE i \in 1..Len(result.phases) : result.phases[i].phase = k]

LastPhase == result.phases[Len(result.phases)]

\* the sets a phase record holds
RecordedSets(rec) ==
    IF rec.phase = 0 THEN rec.base_sets
    ELSE IF rec.phase = 1 THEN rec.final_sets
    ELSE rec.new_sets

\* volume of final_sets, scaled like target_volume
FinalVolume == SetsVolume(result.final_sets) * VolScale(Len(orig))

\* the "infeasible" condition of the specification
Infeasible == SumWeights(orig) = 0 \/ rep_cap <= rep_floor

-----------------------------------------------------------------------------
(* C1 *)

\* C1 as claimed: for a non-empty list without nulls the returned final_sets reach
\* target_volume - 1e-6, unless the infeasible condition holds, and then a
\* shortfall shows as a strictly positive 'remaining' of the last phase record.
C1_AsClaimed ==
    (NoNulls /\ data.sets # <<>>) =>
        /\ pc # "raised"
        /\ Returned =>
              IF Infeasible
              THEN FinalVolume >= result.target_volume \/ LastPhase.remaining > 0
              ELSE FinalVolume >= result.target_volume

\* what holds of the results that are returned: each either reaches
\* target_volume - 1e-6 or ends with a Phase 2 record whose 'remaining' is
\* strictly positive and is the shortfall target_volume - volume(final_sets)
C1_ShortfallFlagged ==
    (Returned /\ NoNulls /\ data.sets # <<>>) =>
        \/ FinalVolume >= result.target_volume
        \/ /\ LastPhase.phase = 2
           /\ LastPhase.remaining > 0
           /\ LastPhase.remaining = result.target_volume - FinalVolume

\* a returned plan under target although neither infeasible condition holds
C1_UnderTargetFeasible ==
    /\ Returned /\ NoNulls /\ data.sets # <<>>
    /\ ~Infeasible
    /\ FinalVolume < result.target_volume
    /\ LastPhase.phase = 2
    /\ LastPhase.remaining > 0

-----------------------------------------------------------------------------
(* C2 *)

RepsWithinCap(sets) == \A i \in 1..Len(sets) : sets[i].reps <= rep_cap

\* C2: every set of every phase record (phase 0 base_sets, phase 1 final_sets,
\* phase 2 new_sets) and of final_sets has reps <= rep_cap.
C2_RepsWithinCap ==
    /\ \A k \in 1..Len(result.phases) : RepsWithinCap(RecordedSets(result.phases[k]))
    /\ RepsWithinCap(result.final_sets)

\* a call with a set logged above rep_cap that ends with a full and a partial new set
C2_Witness ==
    /\ Returned
    /\ \E i \in 1..Len(orig) : orig[i].reps > rep_cap
    /\ LastPhase.phase = 2
    /\ LastPhase.full_new_sets >= 1
    /\ LastPhase.partial_new_set # <<>>

\* a call whose Phase 1 raised a set to the floor and gave a set a greedy rep
C2_WitnessFill ==
    /\ Returned
    /\ HasPhase(1)
    /\ \E i \in 1..Len(base_sets) :
          /\ base_sets[i].reps < rep_floor
          /\ PhaseRec(1).bump_reps[i] > rep_floor - base_sets[i].reps

-----------------------------------------------------------------------------
(* C3 *)

\* the sets the floor-raise step raised: below rep_floor, with headroom
RaisedByFloor(i) == base_sets[i].reps < rep_floor /\ base_sets[i].reps < rep_cap

\* the Phase 1 record comes from the rep-fill branch: some rep count changed
FromRepFill(rec) == \E i \in 1..Len(rec.bump_reps) : rec.bump_reps[i] # 0

\* C3 as claimed: in a Phase 1 plan of the rep-fill branch every set the
\* floor-raise step raised ends with reps >= rep_floor.
C3_AsClaimed ==
    (HasPhase(1) /\ FromRepFill(PhaseRec(1))) =>
        \A i \in 1..Len(base_sets) :
            RaisedByFloor(i) => PhaseRec(1).final_sets[i].reps >= rep_floor

\* C3, amended: such a set ends with reps >= min(rep_floor, rep_cap): the raise
\* is capped by rep_cap, so it reaches rep_floor only when rep_cap >= rep_floor.
C3_RaisedToFloorOrCap ==
    (HasPhase(1) /\ FromRepFill(PhaseRec(1))) =>
        \A i \in 1..Len(base_sets) :
            RaisedByFloor(i) =>
                PhaseRec(1).final_sets[i].reps >= Min(rep_floor, rep_cap)

\* a rep-fill plan in which a set was raised by two reps up to the floor
C3_Witness ==
    /\ HasPhase(1) /\ FromRepFill(PhaseRec(1))
    /\ \E i \in 1..Len(base_sets) :
          /\ RaisedByFloor(i)
          /\ base_sets[i].reps + 2 <= Min(rep_floor, rep_cap)
          /\ PhaseRec(1).final_sets[i].reps = rep_floor

-----------------------------------------------------------------------------
(* C4 *)

\* C4: the Phase 1 increment is the same for all sets; for the leg press it is
\* 9.0; otherwise it is a positive multiple of 1.25 and at most
\* max_pct_weight_bump x average weight.
C4_WeightQuantized ==
    HasPhase(1) =>
        LET rec == PhaseRec(1) IN
        /\ \A i \in 1..Len(base_sets) :
              rec.final_sets[i].weight - base_sets[i].weight = rec.w_inc
        /\ IF data.exercise = LEG_PRESS
           THEN rec.w_inc = LEG_PRESS_INC
           ELSE /\ rec.w_inc > 0
                /\ rec.w_inc % W_STEP = 0
                /\ rec.w_inc * Len(orig) * PercDen
                      <= max_pct_weight_bump * SumWeights(orig)

\* a Phase 1 winner of two steps (2.5 kg) for an exercise other than the leg press
C4_Witness ==
    /\ HasPhase(1)
    /\ data.exercise # LEG_PRESS
    /\ PhaseRec(1).w_inc = 2 * W_STEP

-----------------------------------------------------------------------------
(* C5 *)

VolumePercsExplored == VolumePercs \cup NeighbourPercs

\* the same call with another volume_perc
WithPerc(p) == [Call EXCEPT !.volume_perc = p]

\* C5 as claimed: of two calls that differ only in volume_perc, the one with the
\* larger volume_perc returns a target_volume and a final_sets volume that are not
\* smaller.
C5_Monotone ==
    Returned =>
        \A p \in VolumePercsExplored :
            p <= volume_perc =>
                LET lower == get_optimized_options(WithPerc(p)) IN
                lower.pc = "done" =>
                    /\ lower.result.target_volume <= result.target_volume
                    /\ SetsVolume(lower.result.final_sets)
                          <= SetsVolume(result.final_sets)

\* target_volume alone is monotone in volume_perc
C5_TargetMonotone ==
    Returned =>
        \A p \in VolumePercsExplored :
            p <= volume_perc =>
                LET lower == get_optimized_options(WithPerc(p)) IN
                lower.pc = "done" =>
                    lower.result.target_volume <= result.target_volume

-----------------------------------------------------------------------------
(* C6 *)

UsableAt(i) == data.sets[i].reps # Null /\ data.sets[i].weight # Null

UsableCount == Cardinality({i \in 1..Len(data.sets) : UsableAt(i)})

\* sum of reps x weight over the sets without a null
UsableVolume ==
    SumTo([i \in 1..Len(data.sets) |->
              IF UsableAt(i) THEN data.sets[i].reps * data.sets[i].weight ELSE 0],
          Len(data.sets))

NoNullIn(sets) == \A i \in 1..Len(sets) : sets[i].reps # Null /\ sets[i].weight # Null

\* C6: the sets with a null reps or weight are dropped before anything is
\* computed; when none remains the call returns, without raising, delta = 0,
\* target_volume = 0, no phases and no final_sets; otherwise the dropped sets are
\* neither in target_volume nor in final_sets.
C6_NullsDropped ==
    /\ pc \notin {"idle", "enter"} => NoNullIn(orig) /\ Len(orig) = UsableCount
    /\ UsableCount = 0 =>
          /\ pc \in {"idle", "enter", "done"}
          /\ Returned => result = [delta |-> 0, target_volume |-> 0,
                                   phases |-> <<>>, final_sets |-> <<>>]
    /\ (UsableCount > 0 /\ pc \notin {"idle", "enter"}) =>
          /\ result.target_volume = UsableVolume * (PercDen + volume_perc) * UsableCount
          /\ result.delta = UsableVolume * volume_perc * UsableCount
          /\ NoNullIn(result.final_sets)
          /\ \A k \in 1..Len(result.phases) :
                NoNullIn(RecordedSets(result.phases[k]))
          /\ HasPhase(0) => Len(PhaseRec(0).base_sets) = UsableCount

\* a returned call whose list held a null set beside a usable one with volume
C6_Witness ==
    /\ Returned
    /\ UsableCount > 0
    /\ UsableCount < Len(data.sets)
    /\ result.target_volume > 0
    /\ Len(result.final_sets) >= UsableCount

\* a returned call whose non-empty list held null sets only
C6_WitnessAllNull ==
    /\ Returned
    /\ Len(data.sets) > 0
    /\ UsableCount = 0

-----------------------------------------------------------------------------
(* C7 *)

\* C7 as claimed: a well-formed call (rep_cap = 0 and all-zero weights included)
\* never raises, and a returned plan that is under target shows a strictly
\* positive 'remaining' in its last phase record.
C7_NeverRaises ==
    /\ pc # "raised"
    /\ (Returned /\ orig # <<>> /\ FinalVolume < result.target_volume) =>
          LastPhase.remaining > 0

\* apart from the exception, an under-target plan does show its deficit
C7_DeficitShown ==
    (Returned /\ orig # <<>> /\ FinalVolume < result.target_volume) =>
        LastPhase.remaining > 0

-----------------------------------------------------------------------------
(* C8, under SpecVolume *)

\* reps x weight with a missing or null field counted as zero
ClaimedTerm(s) ==
    IF s.reps \in {Missing, Null} \/ s.weight_kg \in {Missing, Null}
    THEN 0
    ELSE s.reps * s.weight_kg

ClaimedVolume(sets) == SumTo([i \in 1..Len(sets) |-> ClaimedTerm(sets[i])], Len(sets))

Orderings(n) == {f \in [1..n -> 1..n] : \A i, j \in 1..n : f[i] = f[j] => i = j}

Reordered(sets, f) == [i \in 1..Len(sets) |-> sets[f[i]]]

\* C8 as claimed: both calculators return the sum of reps x weight with a missing
\* or null field counted as zero, neither raises, the order of the sets does not
\* matter, and the two agree.
C8_VolumeCalculators ==
    /\ vol_pc # "raised"
    /\ vol_pc \in {"hevy", "done"} => app_volume = ClaimedVolume(raw_sets)
    /\ vol_pc = "done" =>
          /\ hevy_volume = ClaimedVolume(raw_sets)
          /\ hevy_volume = app_volume
          /\ \A f \in Orderings(Len(raw_sets)) :
                /\ calculate_exercise_volume(Reordered(raw_sets, f)) = hevy_volume
                /\ calc_volume(Reordered(raw_sets, f)) = app_volume

\* what holds of the code: app.calc_volume never raises and returns the sum, and
\* Hevy.calculate_exercise_volume agrees with it whenever it returns
C8_AgreeWhenReturned ==
    /\ vol_pc \in {"hevy", "done", "raised"} => app_volume = ClaimedVolume(raw_sets)
    /\ vol_pc = "done" =>
          /\ hevy_volume = app_volume
          /\ \A f \in Orderings(Len(raw_sets)) :
                /\ calculate_exercise_volume(Reordered(raw_sets, f)) = hevy_volume
                /\ calc_volume(Reordered(raw_sets, f)) = app_volume

-----------------------------------------------------------------------------
(* C9 *)

\* kilograms x reps, scaled like target_volume
InKg(v) == v * 100 * VolScale(Len(orig))

\* the call of the scenario: [(10, 40), (10, 40), (8, 40)] at +5 %, default bounds
C9_Scenario ==
    /\ Call = DefaultCall("Bench Press (Barbell)",
                          <<Set(10, 4000), Set(10, 4000), Set(8, 4000)>>, 5)
    /\ Returned

\* what the scenario's call does whatever the volumes are called: candidates
\* {1.25, 2.5, 3.75}, 28 reps, the bump of 1.25 alone falls short, the bump of 2.5
\* alone suffices and wins with no added rep
C9_Winner ==
    /\ Candidates(data.exercise, AvgW(orig), max_pct_weight_bump) = <<125, 250, 375>>
    /\ SumReps(base_sets) = 28
    /\ AddedWVol(base_sets, 125) = InKg(35)
    /\ AddedWVol(base_sets, 250) = InKg(70)
    /\ ~BumpSuffices(base_sets, PhaseRec(0).remaining, 125)
    /\ BumpSuffices(base_sets, PhaseRec(0).remaining, 250)
    /\ Len(result.phases) = 2
    /\ LastPhase.phase = 1
    /\ LastPhase.w_inc = 250
    /\ LastPhase.bump_reps = <<0, 0, 0>>
    /\ result.final_sets = <<Set(10, 4250), Set(10, 4250), Set(8, 4250)>>

\* C9 as claimed: base volume 1040, target_volume 1092, a deficit of 52, winner
\* w_inc = 2.5 with zero added reps, final_sets [(10, 42.5), (10, 42.5), (8, 42.5)]
\* of volume 1105.
C9_AsClaimed ==
    C9_Scenario =>
        /\ SetsVolume(orig) * VolScale(Len(orig)) = InKg(1040)
        /\ result.target_volume = InKg(1092)
        /\ result.delta = InKg(52)
        /\ C9_Winner
        /\ FinalVolume = InKg(1105)

\* C9, amended: base volume 1120, target_volume 1176, a deficit of 56, the same
\* winner w_inc = 2.5 with zero added reps and the same final_sets, of volume 1190.
C9_ScenarioVolumes ==
    C9_Scenario =>
        /\ SetsVolume(orig) * VolScale(Len(orig)) = InKg(1120)
        /\ result.target_volume = InKg(1176)
        /\ result.delta = InKg(56)
        /\ C9_Winner
        /\ FinalVolume = InKg(1190)

\* the scenario's call has returned from Phase 1
C9_Witness ==
    /\ C9_Scenario
    /\ HasPhase(1)
    /\ PhaseRec(1).added_volume = InKg(70)

-----------------------------------------------------------------------------
(* C10 *)

ScanCandidates == Candidates(data.exercise, AvgW(orig), max_pct_weight_bump)

\* the deficit Phase 1 was called with
Phase1Delta == PhaseRec(0).remaining

\* the candidates whose uniform bump alone meets the deficit
Sufficient == {k \in 1..Len(ScanCandidates) :
                  BumpSuffices(base_sets, Phase1Delta, ScanCandidates[k])}

\* the candidates that went through the rep fill before the scan ended
RepFilled ==
    IF Sufficient = {}
    THEN 1..Len(ScanCandidates)
    ELSE 1..((CHOOSE k \in Sufficient : \A j \in Sufficient : k <= j) - 1)

\* the accepted candidates of the scan
AcceptedSeen ==
    {cand \in {FillCandidate(base_sets, Phase1Delta, ScanCandidates[k],
                             rep_floor, rep_cap) : k \in RepFilled} :
        Accepted(cand)}

\* no accepted candidate beats the winner: none has a smaller overshoot, nor the
\* same overshoot with a smaller increment
Unbeaten(winner) ==
    \A cand \in AcceptedSeen :
        \/ winner.overshoot < cand.overshoot
        \/ (winner.overshoot = cand.overshoot /\ winner.w_inc <= cand.w_inc)

\* C10 as claimed: a Phase 1 winner has the smallest overshoot among the accepted
\* candidates of the scan, ties going to the smallest increment; no accepted
\* candidate seen has a strictly smaller overshoot than the winner.
C10_AsClaimed ==
    HasPhase(1) => Unbeaten(PhaseRec(1))

\* C10, amended: a winner that changed a rep count is the accepted candidate of
\* smallest overshoot, ties going to the smallest increment; a winner that changed
\* none is the first candidate, ascending, whose uniform bump alone meets the
\* deficit, returned at once whatever accepted candidates came before it.
C10_WinnerOfItsBranch ==
    HasPhase(1) =>
        LET winner == PhaseRec(1) IN
        IF FromRepFill(winner)
        THEN /\ Sufficient = {}
             /\ \E cand \in AcceptedSeen :
                   /\ cand.w_inc = winner.w_inc
                   /\ cand.overshoot = winner.overshoot
                   /\ cand.final_sets = winner.final_sets
             /\ Unbeaten(winner)
        ELSE /\ Sufficient # {}
             /\ \A k \in Sufficient : winner.w_inc <= ScanCandidates[k]
             /\ \E k \in Sufficient : winner.w_inc = ScanCandidates[k]
             /\ winner.overshoot = AddedWVol(base_sets, winner.w_inc) - Phase1Delta

\* a rep-fill winner picked among accepted candidates of different overshoot
C10_Witness ==
    /\ Returned
    /\ HasPhase(1)
    /\ FromRepFill(PhaseRec(1))
    /\ \E a, b \in AcceptedSeen : a.overshoot < b.overshoot

\* an early-return winner after an accepted candidate of smaller overshoot
C10_WitnessEarly ==
    /\ Returned
    /\ HasPhase(1)
    /\ ~FromRepFill(PhaseRec(1))
    /\ \E a \in AcceptedSeen : a.overshoot < PhaseRec(1).overshoot

-----------------------------------------------------------------------------
(* C11 *)

IsPrefix(s, t) == Len(s) <= Len(t) /\ SubSeq(t, 1, Len(s)) = s

\* the sets of orig with the reps above rep_cap cut down to rep_cap
FlattenedBase == [i \in 1..Len(orig) |->
                     [reps   |-> Min(orig[i].reps, rep_cap),
                      weight |-> orig[i].weight]]

\* the phases of a returned non-empty result: the phase 0 record first, phase
\* numbers strictly increasing, a later record only after a record whose
\* 'remaining' is > 1e-6, and only phase 0 when its 'remaining' is <= 1e-6
PhasesOrdered ==
    (Returned /\ orig # <<>>) =>
        LET phases == result.phases IN
        /\ Len(phases) >= 1
        /\ phases[1].phase = 0
        /\ \A k \in 1..(Len(phases) - 1) :
              /\ phases[k].phase < phases[k + 1].phase
              /\ phases[k].remaining > 0
        /\ phases[1].remaining <= 0 =>
              /\ Len(phases) = 1
              /\ result.final_sets = FlattenedBase
        /\ HasPhase(2) =>
              /\ LastPhase.phase = 2
              /\ result.phases[Len(phases) - 1].remaining > 0

\* a step only appends to phases: the records already there stay as they are
PhasesAppended == IsPrefix(result.phases, result.phases')

\* C11: the phases list is append-only and ordered: it starts with the phase 0
\* record, phase numbers strictly increase, and a later phase has a record only
\* if the deficit left by the stage before it was > 1e-6.
C11_PhasesAppendOnlyOrdered == [](PhasesOrdered) /\ [][PhasesAppended]_vars

\* a returned result with the phase 0 and the phase 1 record, the first kept as
\* it was appended
C11_Witness ==
    /\ Returned
    /\ Len(result.phases) = 2
    /\ result.phases[1].phase = 0
    /\ result.phases[1].base_sets = FlattenedBase
    /\ result.phases[1].base_sets # orig
    /\ result.phases[2].phase = 1

\* a returned result whose phase 2 record follows the phase 0 record
C11_WitnessNewSets ==
    /\ Returned
    /\ Len(result.phases) = 2
    /\ result.phases[2].phase = 2

\* a returned result that stops at phase 0 although volume was asked for
C11_WitnessFlattenOnly ==
    /\ Returned
    /\ Len(result.phases) = 1
    /\ result.target_volume > 0

-----------------------------------------------------------------------------
(* C12 *)

\* Phase 1 has run on a positive deficit
Phase1Ran == HasPhase(0) /\ PhaseRec(0).remaining > 0 /\ pc # "phase1"

\* the rep fill of the k-th candidate, as the scan computed it
FillOf(k) == RepFill(base_sets, Phase1Delta, ScanCandidates[k], rep_floor, rep_cap)

\* the reps the floor raise gave each set
FloorRaise == FloorBumps(base_sets, rep_floor, rep_cap)

\* the sets the greedy loop gave a rep beyond their floor raise
GreedySetsOf(fill) == {i \in 1..Len(base_sets) : fill.bump_r[i] > FloorRaise[i]}

GreedySets(k) == GreedySetsOf(FillOf(k))

\* the reps of set i after a rep fill
FilledReps(fill, i) == base_sets[i].reps + fill.bump_r[i]

\* a set has a greedy rep only if every strictly heavier set is at rep_cap
HeaviestFirst(fill, greedy) ==
    \A i \in greedy :
        \A j \in 1..Len(base_sets) :
            base_sets[j].weight > base_sets[i].weight => FilledReps(fill, j) = rep_cap

\* the fill ends with the deficit met or with no headroom left
StopsWhenDone(fill) ==
    \/ fill.rem2 <= 0
    \/ \A i \in 1..Len(base_sets) : FilledReps(fill, i) = rep_cap

\* the fill gives no rep beyond need: without its last rep, which went to the
\* lightest set it served, the deficit was still open
StopsAtOnce(fill, greedy, w_inc) ==
    \A i \in greedy :
        (\A j \in greedy : base_sets[i].weight <= base_sets[j].weight) =>
            fill.rem2 + (base_sets[i].weight + w_inc) * VolScale(Len(base_sets)) > 0

\* C12: in every rep-fill candidate a set receives a greedy extra rep only if
\* every set of strictly higher weight is at rep_cap, and the fill stops as soon
\* as the deficit is met or no set has headroom.
C12_GreedyHeaviestFirst ==
    Phase1Ran =>
        \A k \in RepFilled :
            LET fill   == FillOf(k)
                greedy == GreedySetsOf(fill)
            IN  /\ \A i \in 1..Len(base_sets) : fill.bump_r[i] >= FloorRaise[i]
                /\ HeaviestFirst(fill, greedy)
                /\ StopsWhenDone(fill)
                /\ StopsAtOnce(fill, greedy, ScanCandidates[k])

\* a candidate whose fill served a lighter set after a heavier one and met the
\* deficit
C12_Witness ==
    /\ Phase1Ran
    /\ \E k \in RepFilled :
          /\ \E i, j \in GreedySets(k) : base_sets[j].weight > base_sets[i].weight
          /\ FillOf(k).rem2 <= 0

\* a candidate whose fill met the deficit with headroom left on a lighter set
C12_WitnessHeadroomLeft ==
    /\ Phase1Ran
    /\ \E k \in RepFilled :
          /\ GreedySets(k) # {}
          /\ FillOf(k).rem2 <= 0
          /\ \E i \in 1..Len(base_sets) : FilledReps(FillOf(k), i) < rep_cap

\* a candidate whose fill ran out of headroom with the deficit still open
C12_WitnessNoHeadroom ==
    /\ Phase1Ran
    /\ \E k \in RepFilled :
          /\ GreedySets(k) # {}
          /\ FillOf(k).rem2 > 0

-----------------------------------------------------------------------------
(* C13 *)

C13_WitnessOvershoot ==
    /\ Returned
    /\ result.phases # <<>>
    /\ LastPhase.phase = 1
    /\ FromRepFill(LastPhase)
    /\ LastPhase.remaining < 0

\* a result of Phase 2 that meets the target exactly
C13_WitnessExact ==
    /\ Returned
    /\ result.phases # <<>>
    /\ LastPhase.phase = 2
    /\ LastPhase.remaining = 0

====
